---- MODULE Spec2Model ----
(***************************************************************************)
(* Model of 0x00-personal_data/filtered_logger.py.                         *)
(*                                                                         *)
(* Strings are sequences of one-character strings.  filter_datum is the    *)
(* loop of re.sub calls of the source; re.sub is modelled for exactly the  *)
(* regular expressions the source can build from the characters below:    *)
(*   field "=" "[^" separator "]*"                                         *)
(* In a field name every character is a literal except "." (any character  *)
(* but a newline) and "(" (opens a group: with no ")" in the alphabet the  *)
(* pattern does not compile and re.sub raises re.error).  In the character *)
(* class a backslash separator escapes the closing bracket, so the pattern *)
(* does not compile either.  In the replacement template a backslash       *)
(* starts an escape.                                                       *)
(***************************************************************************)
EXTENDS Naturals, Sequences

VARIABLES
    fields,        \* filter_datum: parameter fields
    redaction,     \* filter_datum: parameter redaction
    separator,     \* filter_datum: parameter separator (one character)
    arg_message,   \* filter_datum: the message as passed by the caller
    message,       \* filter_datum: the local variable message, rebound per field
    field_idx,     \* filter_datum: position of the for loop in fields
    pc,            \* control state of the running function
    self_fields,   \* RedactingFormatter.fields
    record,        \* the LogRecord last given to RedactingFormatter.format
    formatted,     \* what RedactingFormatter.format returned for it
    handlers,      \* logging.getLogger("user_data").handlers
    level,         \* logging.getLogger("user_data").level
    propagate,     \* logging.getLogger("user_data").propagate
    sink,          \* the lines written to the stream, oldest first
    emitted,       \* per logger.info call so far, the number of lines it wrote
    cursor,        \* main: the rows the cursor has still to yield
    fetched,       \* main: the rows the for loop has consumed, in order
    cursor_open,   \* main: cursor not yet closed
    db_open,       \* main: db_connection not yet closed
    closed_order,  \* main: what has been closed, in order
    get_logger_calls \* number of get_logger calls made in this process

vars == <<fields, redaction, separator, arg_message, message, field_idx, pc,
          self_fields, record, formatted, handlers, level, propagate, sink,
          emitted, cursor, fetched, cursor_open, db_open, closed_order,
          get_logger_calls>>

fd_vars == <<fields, redaction, separator, arg_message, message, field_idx>>
fmt_vars == <<self_fields, record, formatted>>
log_vars == <<handlers, level, propagate, sink, emitted, cursor, fetched,
              cursor_open, db_open, closed_order, get_logger_calls>>

\* ------------------------------------------------------------------ bounds
MaxMsgLen == 4
MaxFields == 2
MaxPairs == 2
MaxRows == 2
MaxGetLoggerCalls == 2
MaxInfoCalls == 2

\* ------------------------------------------------------------- characters
BACKSLASH == "\\"
BEL == "<BEL>"
BS == "<BS>"

RECURSIVE Strings(_, _)
\* all strings over the character set cs of length at most n
Strings(cs, n) ==
    IF n = 0 THEN {<<>>}
    ELSE LET shorter == Strings(cs, n - 1)
         IN shorter \cup {Append(s, c) : s \in {t \in shorter : Len(t) = n - 1}, c \in cs}

RECURSIVE Lists(_, _)
\* all lists over the element set es of length at most n
Lists(es, n) ==
    IF n = 0 THEN {<<>>}
    ELSE LET shorter == Lists(es, n - 1)
         IN shorter \cup {Append(s, e) : s \in {t \in shorter : Len(t) = n - 1}, e \in es}

Contains(s, sub) ==
    \E i \in 1..(Len(s) + 1) :
        /\ i + Len(sub) - 1 <= Len(s)
        /\ \A k \in 1..Len(sub) : s[i + k - 1] = sub[k]

Min(S) == CHOOSE x \in S : \A y \in S : x <= y

\* ------------------------------------------------------------------ re.sub
\* re.compile(f"{field}=[^{separator}]*") succeeds
pattern_compiles(field, sep) ==
    /\ \A k \in 1..Len(field) : field[k] # "("
    /\ sep # BACKSLASH

\* one pattern character of the field against one character of the string
atom_matches(p, c) ==
    IF p = "." THEN c # "\n" ELSE p = c

\* the end of the field part (the index of "=") when f"{field}=" matches at i, else 0
match_at(field, s, i) ==
    IF /\ i + Len(field) <= Len(s)
       /\ \A k \in 1..Len(field) : atom_matches(field[k], s[i + k - 1])
       /\ s[i + Len(field)] = "="
    THEN i + Len(field)
    ELSE 0

\* a value run that is greedy across separators: the whole rest of the string
value_end_greedy(s, j, sep) == Len(s) + 1

\* [^separator]* from index j: the index after the longest run without separator
value_end(s, j, sep) ==
    LET stops == {k \in j..Len(s) : s[k] = sep}
    IN IF stops = {} THEN Len(s) + 1 ELSE Min(stops)

RECURSIVE expand_escapes(_)
\* the replacement template's escapes, for tokens over "*", "a", "b", "=", ";"
\* and the backslash: a backslash before "a" or "b" is the bell or backspace
\* character, a doubled backslash is one backslash, a backslash before a
\* non-alphanumeric character is kept with it, and a trailing backslash is
\* re.error (bad escape); [ok |-> FALSE] is that error
expand_escapes(t) ==
    IF t = <<>> THEN [ok |-> TRUE, val |-> <<>>]
    ELSE IF Head(t) # BACKSLASH THEN
        LET rest == expand_escapes(Tail(t))
        IN [ok |-> rest.ok, val |-> <<Head(t)>> \o rest.val]
    ELSE IF Len(t) = 1 THEN [ok |-> FALSE, val |-> <<>>]
    ELSE LET c == t[2]
             rest == expand_escapes(Tail(Tail(t)))
             out == IF c = BACKSLASH THEN <<BACKSLASH>>
                    ELSE IF c = "a" THEN <<BEL>>
                    ELSE IF c = "b" THEN <<BS>>
                    ELSE <<BACKSLASH, c>>
         IN [ok |-> rest.ok, val |-> out \o rest.val]

\* the template f"{field}={redaction}" as re.sub expands it
template(field, red) ==
    LET r == expand_escapes(red)
    IN [ok |-> r.ok, val |-> field \o <<"=">> \o r.val]

RECURSIVE sub_from(_, _, _, _, _)
\* the substitution of every non-overlapping match of s from index i on, left
\* to right: the text up to the leftmost match is copied, the match is
\* replaced, and the search goes on where the match ended
sub_from(field, repl, s, sep, i) ==
    LET starts == {k \in i..Len(s) : match_at(field, s, k) # 0}
    IN IF starts = {} THEN SubSeq(s, i, Len(s))
       ELSE LET p == Min(starts)
            IN SubSeq(s, i, p - 1) \o repl
               \o sub_from(field, repl, s, sep,
                           value_end(s, match_at(field, s, p) + 1, sep))

\* re.sub(f"{field}=[^{separator}]*", f"{field}={redaction}", s); ok = FALSE is re.error
re_sub(field, red, s, sep) ==
    LET t == template(field, red)
    IN IF pattern_compiles(field, sep) /\ t.ok
       THEN [ok |-> TRUE, val |-> sub_from(field, t.val, s, sep, 1)]
       ELSE [ok |-> FALSE, val |-> s]

RECURSIVE filter_datum(_, _, _, _)
\* filter_datum as a function of its arguments: the whole loop
filter_datum(fs, red, msg, sep) ==
    IF fs = <<>> THEN [ok |-> TRUE, val |-> msg]
    ELSE LET r == re_sub(Head(fs), red, msg, sep)
         IN IF r.ok THEN filter_datum(Tail(fs), red, r.val, sep) ELSE r

\* ------------------------------------------------- the calls of filter_datum
STAR3 == <<"*", "*", "*">>

MsgChars == {"a", "b", "=", ";"}
FieldNames == {<<"a">>, <<"b">>, <<".">>, <<"(">>}
Redactions == {STAR3, <<"b", "=">>, <<";">>, <<BACKSLASH>>}
Separators == {";", BACKSLASH}

\* messages in the documented format: field=value pairs joined by ";"
PairNames == {<<"a">>, <<"b">>, <<"b", "a">>}
PairValues == {<<"a">>, <<"b">>}
Pairs == {n \o <<"=">> \o v : n \in PairNames, v \in PairValues}

RECURSIVE Join(_, _)
\* sep.join(parts)
Join(parts, sep) ==
    IF parts = <<>> THEN <<>>
    ELSE IF Len(parts) = 1 THEN parts[1]
    ELSE parts[1] \o <<sep>> \o Join(Tail(parts), sep)

RecordMessages ==
    LET joined == {Join(ps, ";") : ps \in Lists(Pairs, MaxPairs) \ {<<>>}}
    IN joined \cup {m \o <<";">> : m \in joined}

Messages == Strings(MsgChars, MaxMsgLen) \cup RecordMessages
FieldLists == Lists(FieldNames, MaxFields)

\* the calls of the documentation's examples
W_name == <<"n", "a", "m", "e">>
W_email == <<"e", "m", "a", "i", "l">>
W_password == <<"p", "a", "s", "s", "w", "o", "r", "d">>
M_scenario1 == <<"n", "a", "m", "e", "=", "J", "o", "h", "n", ";", "e", "m", "a", "i", "l", "=", "j", "o", "h", "n", "@", "x", ".", "c", "o", "m", ";", "p", "h", "o", "n", "e", "=", "5", "5", "5", ";">>
M_scenario1_out == <<"n", "a", "m", "e", "=", "*", "*", "*", ";", "e", "m", "a", "i", "l", "=", "*", "*", "*", ";", "p", "h", "o", "n", "e", "=", "5", "5", "5", ";">>
M_scenario2 == <<"p", "a", "s", "s", "w", "o", "r", "d", "=", "a", "b", "c">>
M_scenario2_out == <<"p", "a", "s", "s", "w", "o", "r", "d", "=", "*", "*", "*">>

ScenarioCalls ==
    {[fields |-> <<W_name, W_email>>, redaction |-> STAR3,
      message |-> M_scenario1, separator |-> ";"],
     [fields |-> <<W_password>>, redaction |-> STAR3,
      message |-> M_scenario2, separator |-> ";"]}

Calls ==
    [fields : FieldLists, redaction : Redactions,
     message : Messages, separator : Separators] \cup ScenarioCalls

NoLog ==
    /\ handlers = <<>>
    /\ level = "NOTSET"
    /\ propagate = TRUE
    /\ sink = <<>>
    /\ emitted = <<>>
    /\ cursor = <<>>
    /\ fetched = <<>>
    /\ cursor_open = FALSE
    /\ db_open = FALSE
    /\ closed_order = <<>>
    /\ get_logger_calls = 0

NoFormat ==
    /\ self_fields = <<>>
    /\ record = <<>>
    /\ formatted = <<>>

\* a caller enters filter_datum with its four arguments
Init ==
    /\ \E c \in Calls :
        /\ fields = c.fields
        /\ redaction = c.redaction
        /\ separator = c.separator
        /\ arg_message = c.message
    /\ message = arg_message
    /\ field_idx = 1
    /\ pc = "loop"
    /\ NoFormat
    /\ NoLog

\* one iteration of the for loop whose re.sub returns
Sub ==
    /\ pc = "loop"
    /\ field_idx <= Len(fields)
    /\ LET r == re_sub(fields[field_idx], redaction, message, separator)
       IN /\ r.ok
          /\ message' = r.val
    /\ field_idx' = field_idx + 1
    /\ UNCHANGED <<fields, redaction, separator, arg_message, pc, fmt_vars, log_vars>>

\* one iteration of the for loop whose re.sub raises re.error: it leaves the function
Raise ==
    /\ pc = "loop"
    /\ field_idx <= Len(fields)
    /\ ~re_sub(fields[field_idx], redaction, message, separator).ok
    /\ pc' = "raised"
    /\ UNCHANGED <<fd_vars, fmt_vars, log_vars>>

\* return message
Return ==
    /\ pc = "loop"
    /\ field_idx > Len(fields)
    /\ pc' = "done"
    /\ UNCHANGED <<fd_vars, fmt_vars, log_vars>>

Next == Sub \/ Raise \/ Return

Spec == Init /\ [][Next]_vars

\* ------------------------------------------- the documented rewriting rule
\* f"{field}=" occurs in s at i, character for character
occurs_at(field, s, i) ==
    /\ i + Len(field) <= Len(s)
    /\ \A k \in 1..Len(field) : s[i + k - 1] = field[k]
    /\ s[i + Len(field)] = "="

\* the first index from j on that holds sep, or Len(s) + 1
first_sep(s, j, sep) ==
    IF \E k \in j..Len(s) : s[k] = sep
    THEN CHOOSE k \in j..Len(s) : s[k] = sep /\ \A h \in j..(k - 1) : s[h] # sep
    ELSE Len(s) + 1

RECURSIVE rewrite_from(_, _, _, _, _)
\* every occurrence of 'field=<value>' in s from i on rewritten to 'field=token'
rewrite_from(field, token, s, sep, i) ==
    IF \A k \in i..Len(s) : ~occurs_at(field, s, k) THEN SubSeq(s, i, Len(s))
    ELSE LET p == CHOOSE k \in i..Len(s) :
                      occurs_at(field, s, k) /\ \A h \in i..(k - 1) : ~occurs_at(field, s, h)
         IN SubSeq(s, i, p - 1) \o field \o <<"=">> \o token
            \o rewrite_from(field, token, s, sep, first_sep(s, p + Len(field) + 1, sep))

RECURSIVE rewrite_fields(_, _, _, _)
\* the rule applied for each name of the field list, in order
rewrite_fields(fs, token, s, sep) ==
    IF fs = <<>> THEN s
    ELSE rewrite_fields(Tail(fs), token, rewrite_from(Head(fs), token, s, sep, 1), sep)

RECURSIVE Split(_, _)
\* s.split(sep): the maximal runs of s without sep, in order
Split(s, sep) ==
    LET e == first_sep(s, 1, sep)
    IN IF e > Len(s) THEN <<s>>
       ELSE <<SubSeq(s, 1, e - 1)>> \o Split(SubSeq(s, e + 1, Len(s)), sep)

\* the name of one 'name=value' pair
PairName(seg) == SubSeq(seg, 1, first_sep(seg, 1, "=") - 1)

Range(f) == {f[k] : k \in 1..Len(f)}

\* the names of the pairs of a message in the documented format
NamesPresent(m, sep) == {PairName(seg) : seg \in Range(Split(m, sep)) \ {<<>>}}

\* C1: filter_datum(F, R, m, S) returns m with, for each name f of F, every
\* occurrence of 'f=<value>' rewritten to 'f=R', <value> being the longest run
\* without S, and everything else kept character for character.
C1_RewritesEveryOccurrence ==
    pc = "done" => message = rewrite_fields(fields, redaction, arg_message, separator)

\* C2: in a message of 'field=value' pairs joined by the separator, redacting a
\* strict subset F of the field names present leaves every pair whose name is
\* not in F untouched (no partial or substring match of a field name).
C2_ExactFieldNameMatch ==
    (/\ pc = "done"
     /\ separator = ";"
     /\ redaction = STAR3
     /\ arg_message \in RecordMessages
     /\ Range(fields) \subseteq NamesPresent(arg_message, ";")
     /\ Range(fields) # NamesPresent(arg_message, ";"))
    => LET before == Split(arg_message, ";")
           after == Split(message, ";")
       IN /\ Len(after) = Len(before)
          /\ \A k \in 1..Len(before) :
                PairName(before[k]) \notin Range(fields) => after[k] = before[k]

\* the precondition of C3: the token holds no field name followed by "="
TokenFreeOfFields ==
    \A k \in 1..Len(fields) : ~Contains(redaction, fields[k] \o <<"=">>)

\* C3: filter_datum is idempotent whenever the token holds no field name
\* followed by "=": applying it to its own result returns that result.  (The
\* token is taken free of the separator as well: the statement refuted is the
\* claim on the tokens most favourable to it.)
C3_Idempotent ==
    (pc = "done" /\ TokenFreeOfFields /\ separator \notin Range(redaction))
    => filter_datum(fields, redaction, message, separator) = [ok |-> TRUE, val |-> message]

\* C4: filter_datum raises no exception, whatever its arguments.
C4_NeverRaises == pc # "raised"

\* C5: when no name of the field list appears in the message, filter_datum
\* returns the message unchanged.
C5_NoOpOnAbsentFields ==
    (pc = "done" /\ \A k \in 1..Len(fields) : ~Contains(arg_message, fields[k]))
    => message = arg_message

\* --------------------------------------------------- the separator boundary
\* no pattern character of the field can match the separator
CannotMatchSeparator(field, sep) ==
    \A k \in 1..Len(field) : ~atom_matches(field[k], sep)

\* the positions of s at which f"{field}=" matches
MatchStarts(field, s) == {i \in 1..Len(s) : match_at(field, s, i) # 0}

\* one separator-free segment: from its first match on, the rest of the
\* segment is the value run
redact_segment(field, token, seg) ==
    IF MatchStarts(field, seg) = {} THEN seg
    ELSE SubSeq(seg, 1, Min(MatchStarts(field, seg)) - 1) \o field \o <<"=">> \o token

RECURSIVE redact_segments(_, _, _, _)
\* every field in turn, each applied segment by segment
redact_segments(fs, token, s, sep) ==
    IF fs = <<>> THEN s
    ELSE LET segs == Split(s, sep)
             out == [k \in 1..Len(segs) |-> redact_segment(Head(fs), token, segs[k])]
         IN redact_segments(Tail(fs), token, Join(out, sep), sep)

\* a single field: the text before the first match is kept, 'field=token'
\* follows, and right after it comes the first separator that followed the
\* "=" (or the end of the string, or the next match when it starts there)
FirstValueRunBoundary(field, token, sep, s, out) ==
    IF MatchStarts(field, s) = {} THEN out = s
    ELSE LET p == Min(MatchStarts(field, s))
             e == first_sep(s, p + Len(field) + 1, sep)
             head == SubSeq(s, 1, p - 1) \o field \o <<"=">> \o token
         IN /\ Len(out) >= Len(head)
            /\ SubSeq(out, 1, Len(head)) = head
            /\ e > Len(s) => out = head
            /\ (e <= Len(s) /\ e \notin MatchStarts(field, s)) =>
                  /\ Len(out) > Len(head)
                  /\ out[Len(head) + 1] = sep
            /\ (e <= Len(s) /\ \A i \in MatchStarts(field, s) : i < e) =>
                  out = head \o SubSeq(s, e, Len(s))

\* C6: the redacted value run of a matched field starts right after 'field='
\* and stops exactly at the first following separator or at the end of the
\* string; the separator and the pairs after it are never consumed, and a last
\* field without a trailing separator is redacted: 'password=abc' becomes
\* 'password=***'.
C6_SeparatorBoundary ==
    pc = "done" =>
        LET token == expand_escapes(redaction).val
        IN /\ (\A k \in 1..Len(fields) : CannotMatchSeparator(fields[k], separator))
                => message = redact_segments(fields, token, arg_message, separator)
           /\ Len(fields) = 1
                => FirstValueRunBoundary(fields[1], token, separator, arg_message, message)
           /\ (fields = <<W_password>> /\ arg_message = M_scenario2) => message = M_scenario2_out

\* a matched field followed by a separator and a second pair has been redacted
\* and returned: the value run stopped at the separator
C6_Witness ==
    /\ pc = "done"
    /\ fields = <<(<<"a">>)>>
    /\ redaction = STAR3
    /\ separator = ";"
    /\ arg_message = <<"a", "=", "b", ";", "b", "=", "a">>
    /\ message = <<"a", "=", "*", "*", "*", ";", "b", "=", "a">>

\* ------------------------------------ the single-pass alternation strategy
\* the first field of fs, in order, whose f"{field}=" matches s at i; 0 if none
first_alternative(fs, s, i) ==
    LET hits == {k \in 1..Len(fs) : match_at(fs[k], s, i) # 0}
    IN IF hits = {} THEN 0 ELSE Min(hits)

RECURSIVE alternation_from(_, _, _, _, _)
\* one pass over s from i on: each match of any field's 'name=value' span is
\* rewritten to 'name=token'
alternation_from(fs, token, s, sep, i) ==
    LET starts == {p \in i..Len(s) : first_alternative(fs, s, p) # 0}
    IN IF starts = {} THEN SubSeq(s, i, Len(s))
       ELSE LET p == Min(starts)
                k == first_alternative(fs, s, p)
            IN SubSeq(s, i, p - 1) \o fs[k] \o <<"=">> \o token
               \o alternation_from(fs, token, s, sep,
                                   first_sep(s, match_at(fs[k], s, p) + 1, sep))

\* strategy (b) of the design: a single alternation pattern over all fields
alternation_redact(fs, token, s, sep) == alternation_from(fs, token, s, sep, 1)

\* no field name is part of another one
DisjointNames(fs) ==
    \A i, j \in 1..Len(fs) : i # j => ~Contains(fs[i], fs[j])

\* C8: on messages of 'field=value' pairs whose values hold neither "=" nor the
\* separator, and for disjoint field names, the sequential per-field
\* substitution of filter_datum returns what the single-pass alternation
\* strategy returns (token "***", separator ";").
C8_SequentialEqualsAlternation ==
    (/\ pc = "done"
     /\ redaction = STAR3
     /\ separator = ";"
     /\ arg_message \in RecordMessages
     /\ DisjointNames(fields))
    => message = alternation_redact(fields, STAR3, arg_message, ";")

\* ------------------------------------------------------ RedactingFormatter
REDACTION == STAR3
SEPARATOR == ";"
W_phone == <<"p", "h", "o", "n", "e">>
W_ssn == <<"s", "s", "n">>
PII_FIELDS == <<W_name, W_email, W_phone, W_ssn, W_password>>

S_user_data == <<"u", "s", "e", "r", "_", "d", "a", "t", "a">>
S_INFO == <<"I", "N", "F", "O">>
S_ERROR == <<"E", "R", "R", "O", "R">>
S_HOLBERTON == <<"[", "H", "O", "L", "B", "E", "R", "T", "O", "N", "]", " ">>
S_ssn_redacted == <<"s", "s", "n", "=", "*", "*", "*">>
S_name_redacted == <<"n", "a", "m", "e", "=", "*", "*", "*">>
M_formatter_scenario == <<"s", "s", "n", "=", "1", "2", "3", "-", "4", "5", "-", "6", "7", "8", "9", ";", "n", "a", "m", "e", "=", "J", "a", "n", "e", ";">>

\* %(asctime)s as logging renders it; the clock is the environment's
Asctimes == {<<"2", "0", "2", "4", "-", "0", "1", "-", "0", "1", " ", "0", "0", ":", "0", "0", ":", "0", "0", ",", "0", "0", "0">>, <<"2", "0", "2", "4", "-", "0", "1", "-", "0", "1", " ", "0", "0", ":", "0", "0", ":", "0", "1", ",", "2", "5", "0">>}

\* "%-15s": s left-justified in a field of the given width
ljust(s, width) ==
    IF Len(s) >= width THEN s ELSE s \o [k \in 1..(width - Len(s)) |-> " "]

AsctimeWidth == 15

\* logging.Formatter.format for FORMAT, on a record without exception or
\* stack information
base_format(rec) ==
    S_HOLBERTON \o rec.name \o <<" ">> \o rec.levelname \o <<" ">>
    \o ljust(rec.asctime, AsctimeWidth) \o <<":", " ">> \o rec.message

\* a formatter that redacts the message alone, then renders the line
format_message_only(flds, rec) ==
    LET r == filter_datum(flds, REDACTION, rec.message, SEPARATOR)
    IN [ok |-> r.ok, val |-> base_format([rec EXCEPT !.message = r.val])]

\* RedactingFormatter.format; ok = FALSE is the re.error of filter_datum
format(flds, rec) ==
    filter_datum(flds, REDACTION, base_format(rec), SEPARATOR)

LoggerNames == {S_user_data, <<"n", "a", "m", "e", "=", "x">>}
LevelNames == {S_INFO, S_ERROR}
RecordMessages2 ==
    {M_formatter_scenario, <<>>, <<"=", "1", ";">>, <<"e", "m", "a", "i", "l", "=", "a">>, <<"i", "p", "=", "1", ";", "s", "s", "n", "=", "2">>, <<"n", "a", "m", "e", "=", "a", ";", " ", "p", "h", "o", "n", "e", "=", "b", ";">>}
Records ==
    [name : LoggerNames, levelname : LevelNames, asctime : Asctimes,
     message : RecordMessages2]
FormatterFields ==
    {PII_FIELDS, <<>>, <<W_name>>, <<<<":", " ">>>>, <<W_ssn, <<"(">>>>}

\* RedactingFormatter(fields): __init__ stores the caller's list
InitFormat ==
    /\ self_fields \in FormatterFields
    /\ record = <<>>
    /\ formatted = <<>>
    /\ pc = "constructed"
    /\ fields = <<>> /\ redaction = <<>> /\ separator = ";"
    /\ arg_message = <<>> /\ message = <<>> /\ field_idx = 1
    /\ NoLog

\* formatter.format(record) returns the redacted line
Format ==
    /\ \E rec \in Records :
        /\ format(self_fields, rec).ok
        /\ record' = rec
        /\ formatted' = format(self_fields, rec).val
    /\ pc' = "formatted"
    /\ UNCHANGED <<self_fields, fd_vars, log_vars>>

\* formatter.format(record) raises the re.error of filter_datum
FormatRaise ==
    /\ \E rec \in Records :
        /\ ~format(self_fields, rec).ok
        /\ record' = rec
    /\ pc' = "raised"
    /\ UNCHANGED <<self_fields, formatted, fd_vars, log_vars>>

NextFormat == Format \/ FormatRaise

SpecFormat == InitFormat /\ [][NextFormat]_vars

\* C7: format(record) is filter_datum(self.fields, "***", line, ";") on the
\* whole line rendered from the base template (logger name, level, timestamp,
\* message); for the record of logger user_data, level INFO and message
\* 'ssn=123-45-6789;name=Jane;' under the default PII fields the line holds
\* 'ssn=***' and 'name=***' and keeps 'INFO' and 'user_data'.
C7_FormatRedactsRenderedLine ==
    pc = "formatted" =>
        /\ formatted =
             filter_datum(self_fields, <<"*", "*", "*">>,
                          <<"[", "H", "O", "L", "B", "E", "R", "T", "O", "N", "]", " ">> \o record.name \o <<" ">> \o record.levelname
                          \o <<" ">> \o record.asctime \o <<":", " ">> \o record.message,
                          ";").val
        /\ (/\ self_fields = PII_FIELDS
            /\ record.name = S_user_data
            /\ record.levelname = S_INFO
            /\ record.message = M_formatter_scenario)
           => /\ Contains(formatted, S_ssn_redacted)
              /\ Contains(formatted, S_name_redacted)
              /\ Contains(formatted, S_INFO)
              /\ Contains(formatted, S_user_data)
              /\ ~Contains(formatted, <<"1", "2", "3", "-", "4", "5", "-", "6", "7", "8", "9">>)
              /\ ~Contains(formatted, <<"J", "a", "n", "e">>)

\* the record of the formatter scenario has been formatted under PII_FIELDS
C7_Witness ==
    /\ pc = "formatted"
    /\ self_fields = PII_FIELDS
    /\ record.name = S_user_data
    /\ record.levelname = S_INFO
    /\ record.message = M_formatter_scenario
    /\ Contains(formatted, S_ssn_redacted)
    /\ Contains(formatted, S_name_redacted)

\* ------------------------------------------------------- get_logger and main
\* rows of the users table: name, email, phone, ssn, password, ip,
\* last_login, user_agent
Row_plain ==
    <<<<"J", "a", "n", "e">>, <<"j", "@", "x", ".", "c", "o", "m">>, <<"5", "5", "5">>, <<"1", "2", "3", "-", "4", "5", "-", "6", "7", "8", "9">>, <<"p", "w">>, <<"1", ".", "2", ".", "3", ".", "4">>, <<"2", "0", "1", "9", "-", "1", "1", "-", "1", "4">>, <<"M", "o", "z", "i", "l", "l", "a">>>>
Row_spaces ==
    <<<<"A", " ", "B">>, <<>>, <<"5", " ", "5">>, <<"s">>, <<"p", " ", "q">>, <<>>, <<"t">>, <<"X", " ", "1", ".", "0">>>>
Row_equals ==
    <<<<"B", "o", "b">>, <<"b", "@", "y">>, <<"1">>, <<"2">>, <<"3">>, <<"9", ".", "9", ".", "9", ".", "9">>, <<"t">>, <<"s", "s", "n", "=", "1">>>>
Row_semicolon ==
    <<<<"J", "a", ";", "n", "e">>, <<"e">>, <<"1">>, <<"2">>, <<"3">>, <<"4">>, <<"5">>, <<"6">>>>
Rows == {Row_plain, Row_spaces, Row_equals, Row_semicolon}

InfoMessages == {<<"n", "a", "m", "e", "=", "a", ";">>, <<"i", "p", "=", "1">>}

\* the message main builds from one row
row_message(row) ==
    <<"n", "a", "m", "e", "=">> \o row[1] \o <<";", " ", "e", "m", "a", "i", "l", "=">> \o row[2] \o <<";", " ", "p", "h", "o", "n", "e", "=">> \o row[3]
    \o <<";", " ", "s", "s", "n", "=">> \o row[4] \o <<";", " ", "p", "a", "s", "s", "w", "o", "r", "d", "=">> \o row[5] \o <<";", " ", "i", "p", "=">> \o row[6]
    \o <<";", " ", "l", "a", "s", "t", "_", "l", "o", "g", "i", "n", "=">> \o row[7] \o <<";", " ", "u", "s", "e", "r", "_", "a", "g", "e", "n", "t", "=">> \o row[8] \o <<";">>

\* the body of get_logger on the process-wide "user_data" logger: a new
\* StreamHandler with a new RedactingFormatter is added on every call
add_stream_handler(hs) == Append(hs, [formatter_fields |-> PII_FIELDS])

\* logger.info(msg): Logger.callHandlers gives the record to every handler of
\* the logger (propagate is False), and each handler writes its formatter's line
info_lines(hs, msg, t) ==
    [k \in 1..Len(hs) |->
        format(hs[k].formatter_fields,
               [name |-> S_user_data, levelname |-> S_INFO,
                asctime |-> t, message |-> msg]).val]

InitLogger ==
    /\ handlers = <<>>
    /\ level = "NOTSET"
    /\ propagate = TRUE
    /\ sink = <<>>
    /\ emitted = <<>>
    /\ cursor = <<>>
    /\ fetched = <<>>
    /\ cursor_open = FALSE
    /\ db_open = FALSE
    /\ closed_order = <<>>
    /\ get_logger_calls = 0
    /\ pc = "start"
    /\ fields = <<>> /\ redaction = <<>> /\ separator = ";"
    /\ arg_message = <<>> /\ message = <<>> /\ field_idx = 1
    /\ NoFormat

\* the effect of one get_logger call on the logger
get_logger ==
    /\ level' = "INFO"
    /\ propagate' = FALSE
    /\ handlers' = add_stream_handler(handlers)
    /\ get_logger_calls' = get_logger_calls + 1

\* another caller in the process calls get_logger() before main runs
GetLogger ==
    /\ pc = "start"
    /\ get_logger_calls < MaxGetLoggerCalls
    /\ get_logger
    /\ UNCHANGED <<pc, sink, emitted, cursor, fetched, cursor_open, db_open,
                   closed_order, fd_vars, fmt_vars>>

\* a caller holding the logger returned by get_logger calls logger.info(msg)
LoggerInfo ==
    /\ pc = "start"
    /\ get_logger_calls >= 1
    /\ level = "INFO"
    /\ Len(emitted) < MaxInfoCalls
    /\ \E msg \in InfoMessages, t \in Asctimes :
        /\ sink' = sink \o info_lines(handlers, msg, t)
        /\ emitted' = Append(emitted, [who |-> "caller", lines |-> Len(handlers)])
    /\ UNCHANGED <<pc, handlers, level, propagate, cursor, fetched, cursor_open,
                   db_open, closed_order, get_logger_calls, fd_vars, fmt_vars>>

\* main: get_db(), db_connection.cursor(), cursor.execute("SELECT * FROM users;")
MainConnect ==
    /\ pc = "start"
    /\ cursor' \in Lists(Rows, MaxRows)
    /\ cursor_open' = TRUE
    /\ db_open' = TRUE
    /\ pc' = "connected"
    /\ UNCHANGED <<handlers, level, propagate, sink, emitted, fetched,
                   closed_order, get_logger_calls, fd_vars, fmt_vars>>

\* main: logger = get_logger()
MainGetLogger ==
    /\ pc = "connected"
    /\ get_logger
    /\ pc' = "rows"
    /\ UNCHANGED <<sink, emitted, cursor, fetched, cursor_open, db_open,
                   closed_order, fd_vars, fmt_vars>>

\* main: one iteration of for row in cursor
MainLogRow ==
    /\ pc = "rows"
    /\ cursor # <<>>
    /\ \E t \in Asctimes :
        sink' = sink \o info_lines(handlers, row_message(Head(cursor)), t)
    /\ emitted' = Append(emitted, [who |-> "main", lines |-> Len(handlers)])
    /\ fetched' = Append(fetched, Head(cursor))
    /\ cursor' = Tail(cursor)
    /\ UNCHANGED <<pc, handlers, level, propagate, cursor_open, db_open,
                   closed_order, get_logger_calls, fd_vars, fmt_vars>>

\* main: cursor.close()
MainCloseCursor ==
    /\ pc = "rows"
    /\ cursor = <<>>
    /\ cursor_open' = FALSE
    /\ closed_order' = Append(closed_order, "cursor")
    /\ pc' = "closing"
    /\ UNCHANGED <<handlers, level, propagate, sink, emitted, cursor, fetched,
                   db_open, get_logger_calls, fd_vars, fmt_vars>>

\* main: db_connection.close()
MainCloseDb ==
    /\ pc = "closing"
    /\ db_open' = FALSE
    /\ closed_order' = Append(closed_order, "db_connection")
    /\ pc' = "done"
    /\ UNCHANGED <<handlers, level, propagate, sink, emitted, cursor, fetched,
                   cursor_open, get_logger_calls, fd_vars, fmt_vars>>

NextLogger ==
    \/ GetLogger
    \/ LoggerInfo
    \/ MainConnect
    \/ MainGetLogger
    \/ MainLogRow
    \/ MainCloseCursor
    \/ MainCloseDb

SpecLogger == InitLogger /\ [][NextLogger]_vars

RECURSIVE SumLines(_)
SumLines(es) == IF es = <<>> THEN 0 ELSE Head(es).lines + SumLines(Tail(es))

\* the lines main wrote: those after the lines of the earlier callers
CallerEntries == SelectSeq(emitted, LAMBDA e : e.who = "caller")
MainLines == SubSeq(sink, SumLines(CallerEntries) + 1, Len(sink))

\* the line the claim expects for one row
expected_row_line(row, t) ==
    S_HOLBERTON \o S_user_data \o <<" ">> \o S_INFO \o <<" ">> \o t \o <<":", " ">>
    \o <<"n", "a", "m", "e", "=", "*", "*", "*", ";", " ", "e", "m", "a", "i", "l", "=", "*", "*", "*", ";", " ", "p", "h", "o", "n", "e", "=", "*", "*", "*", ";", " ", "s", "s", "n", "=", "*", "*", "*", ";", " ", "p", "a", "s", "s", "w", "o", "r", "d", "=", "*", "*", "*", ";", " ", "i", "p", "=">> \o row[6]
    \o <<";", " ", "l", "a", "s", "t", "_", "l", "o", "g", "i", "n", "=">> \o row[7] \o <<";", " ", "u", "s", "e", "r", "_", "a", "g", "e", "n", "t", "=">> \o row[8] \o <<";">>

\* C9: for rows whose values hold no ";", main emits exactly one line per row,
\* in row order, with the values of name, email, phone, ssn and password
\* replaced by "***" and the ip, last_login and user_agent values unchanged;
\* after the last row the cursor and then the connection are closed.  (The
\* rows are taken free of "=" as well, which the message format does not
\* support inside a value: the statement refuted is the claim on the rows
\* most favourable to it.)
C9_MainOneRedactedLinePerRow ==
    (/\ pc = "done"
     /\ \A k \in 1..Len(fetched) : \A c \in 1..8 :
           /\ ~Contains(fetched[k][c], <<";">>)
           /\ ~Contains(fetched[k][c], <<"=">>))
    => /\ Len(MainLines) = Len(fetched)
       /\ \A k \in 1..Len(fetched) :
             \E t \in Asctimes : MainLines[k] = expected_row_line(fetched[k], t)
       /\ closed_order = <<"cursor", "db_connection">>
       /\ ~cursor_open /\ ~db_open

\* C10: after one or more get_logger calls the "user_data" logger has level
\* INFO, propagate False and exactly one stream handler with a
\* RedactingFormatter over PII_FIELDS, and every logger.info call writes
\* exactly one line.
C10_OneHandlerAfterGetLogger ==
    get_logger_calls >= 1 =>
        /\ level = "INFO"
        /\ propagate = FALSE
        /\ handlers = <<[formatter_fields |-> PII_FIELDS]>>
        /\ \A k \in 1..Len(emitted) : emitted[k].lines = 1
====
